---- MODULE Spec2Model ----
(***************************************************************************)
(* Model of src/main.py: a Telegram bot that uploads a received file to an *)
(* S3 bucket, records it in the SQLite table `files`, answers with a       *)
(* pre-signed link and starts an in-memory asyncio task that deletes the   *)
(* object and its record one hour later.                                   *)
(*                                                                         *)
(* The persistent state is the bucket (s3) and the table (files); the      *)
(* in-memory state is the schedule_deletion tasks (tasks).  msgs is the    *)
(* log of the messages handled, with what each was answered.               *)
(***************************************************************************)
EXTENDS Integers, Sequences, FiniteSets, TLC

\* ------------------------------------------------------------------ bounds
MaxUploads == 2      \* messages handled by handle_document over a behaviour
MaxRestarts == 1     \* process restarts over a behaviour
MaxTicks == 2        \* clock steps over a behaviour
MaxCommitLag == 1    \* seconds a slow my_session.commit() takes (LagSpec)

\* ------------------------------------------------------- program constants
ExpiresIn == 3600        \* generate_presigned_url(..., ExpiresIn=3600)
ExpirationHours == 1     \* expiration_time = now + timedelta(hours=1)
DeletionDelay == 3600    \* schedule_deletion(bucket, unique_name, 3600)

SecondsPerHour == 60 * 60
TickStep == DeletionDelay            \* the clock advances one delay at a time
MaxTime == MaxTicks * TickStep

Users == {1, 2}                          \* message.from_user.id
Names == {"report.pdf"}                  \* message.document.file_name

NoName == ""                             \* file_name = None (line 168)
NoKey == <<0, "">>
NoTask == [pc |-> "none"]
NoListing == [user_id |-> 0, files |-> <<>>]

VARIABLES
    now,       \* wall clock, seconds
    s3,        \* keys of the objects in the bucket
    files,     \* rows of the table `files`
    msgs,      \* handle_document invocations, in order of arrival
    tasks,     \* tasks[i]: the schedule_deletion task created by msgs[i]
    boots,     \* process restarts so far
    dueAtStart,\* unique_names whose row was in `files`, already expired, when
               \* the process last started
    shown,     \* the listing sent by the step just taken, if any
    keyboards, \* the user_ids carried by the inline keyboards sent so far
    pressed    \* the user whose button press the step just taken handled

vars == <<now, s3, files, msgs, tasks, boots, dueAtStart, shown, keyboards, pressed>>

\* ------------------------------------------------------------- FileRecord
\* Column(Integer, primary_key=True) on SQLite: rowid, assigned max + 1.
NextId(rows) == IF rows = {} THEN 1
                ELSE 1 + CHOOSE m \in {r.id : r \in rows} :
                               \A r \in rows : r.id <= m

FileRecord(rows, user_id, file_name, unique_name, download_link, expiration_time) ==
    [id |-> NextId(rows), user_id |-> user_id, file_name |-> file_name,
     unique_name |-> unique_name, download_link |-> download_link,
     expiration_time |-> expiration_time]

\* rows in rowid order, as a table scan returns them
RECURSIVE ByRowid(_)
ByRowid(rows) ==
    IF rows = {} THEN <<>>
    ELSE LET r == CHOOSE x \in rows : \A y \in rows : x.id <= y.id
         IN  <<r>> \o ByRowid(rows \ {r})

\* mutant: the row is looked up by its display name
first_by_file_name(rows, file_key) ==
    LET hit == {r \in rows : r.file_name = file_key[2]}
    IN  IF hit = {} THEN {}
        ELSE {CHOOSE x \in hit : \A y \in hit : x.id <= y.id}

\* session.query(FileRecord).filter_by(unique_name=file_key).first()
first_by_unique_name(rows, file_key) ==
    LET hit == {r \in rows : r.unique_name = file_key}
    IN  IF hit = {} THEN {}
        ELSE {CHOOSE x \in hit : \A y \in hit : x.id <= y.id}

\* mutant: the rows come newest first
RECURSIVE ByRowidDescending(_)
ByRowidDescending(rows) ==
    IF rows = {} THEN <<>>
    ELSE LET r == CHOOSE x \in rows : \A y \in rows : x.id >= y.id
         IN  <<r>> \o ByRowidDescending(rows \ {r})

files_query_newest_first(rows, user_id) ==
    ByRowidDescending({r \in rows : r.user_id = user_id})

\* mutant: the query has no owner filter
files_query_unfiltered(rows, user_id) == ByRowid(rows)

\* session.query(FileRecord).filter_by(user_id=user_id).all()
files_query(rows, user_id) == ByRowid({r \in rows : r.user_id = user_id})

\* ------------------------------------------------------------ derived sets
RecordKeys == {r.unique_name : r \in files}
Armed == {i \in DOMAIN tasks : tasks[i].pc # "none"}

\* mutant: the key is the display name alone
unique_name_without_uuid(uuid, file_name) == <<0, file_name>>

\* unique_name = f"{uuid.uuid4()}_{file_name}"
unique_name_of(uuid, file_name) == <<uuid, file_name>>

\* mutant: the link is valid for two hours
generate_presigned_url_two_hours(key, t) == [key |-> key, valid_until |-> t + 2 * ExpiresIn]

\* s3.generate_presigned_url("get_object", Params={Key}, ExpiresIn=3600)
generate_presigned_url(key, t) == [key |-> key, valid_until |-> t + ExpiresIn]

Init ==
    /\ now = 0
    /\ s3 = {}
    /\ files = {}
    /\ msgs = <<>>
    /\ tasks = [i \in 1..MaxUploads |-> NoTask]
    /\ boots = 0
    /\ dueAtStart = {}
    /\ shown = NoListing
    /\ keyboards = {}
    /\ pressed = 0

\* ------------------------------------------------------- handle_document
\* mutant: every call returns the same value
uuid4_repeated(i) == 1

\* uuid.uuid4(): a value no other call returns; the call made for the i-th
\* message is modelled by i.
uuid4(i) == i

\* A message with a supported attachment arrives and the handler runs to
\* its end (lines 166-243).  Nothing is written before `await bot.get_file`
\* and `await bot.download_file` return, and nothing after the reply, so
\* the handler is one step.  reply: "link" (line 236), "error" (240, 243)
\* or "unsupported" (198).
\*   fetch_failed  : get_file / download_file raised
\*   put_failed    : s3.upload_fileobj raised (NoCredentialsError or other)
\*   commit_failed : the upload succeeded and generate_presigned_url or
\*                   my_session.commit() raised
\*   ok            : uploaded, committed, deletion task created
\*   unsupported   : the message carries no document, photo, audio, video,
\*                   voice or animation (lines 196-199)
Outcomes == {"unsupported", "fetch_failed", "put_failed", "commit_failed", "ok"}

\* mutant: the handler goes on to the upload without an attachment
uploaded_without_return(outcome) == outcome \in {"unsupported", "commit_failed", "ok"}
\* line 209 returned: the object is in the bucket
uploaded(outcome) == outcome \in {"commit_failed", "ok"}
\* mutant: the row is committed although the upload raised
committed_despite_put_failure(outcome) == outcome \in {"ok", "put_failed"}
\* line 230 returned: the row is in the table
committed(outcome) == outcome = "ok"
\* line 234 ran: the deletion task exists
scheduled(outcome) == outcome = "ok"
\* mutant: the link is answered whatever happened
answer_always_link(outcome) == "link"
\* the text answered: the link (line 236), an error (lines 240, 243) or the
\* request for a supported file type (line 198)
answer(outcome) ==
    IF outcome = "ok" THEN "link"
    ELSE IF outcome = "unsupported" THEN "unsupported"
    ELSE "error"

\* lag: the seconds that pass between line 220, where expiration_time is
\* computed, and line 234, where the deletion task is created.
handle_document_slow(user_id, file_name, outcome, lag) ==
    /\ Len(msgs) < MaxUploads
    /\ outcome = "unsupported" <=> file_name = NoName
    /\ lag > 0 => scheduled(outcome)
    /\ now + lag <= MaxTime
    /\ LET i == Len(msgs) + 1
           key == unique_name_of(uuid4(i), file_name)
           url == generate_presigned_url(key, now)
           expiration_time == now + ExpirationHours * SecondsPerHour
           rec == FileRecord(files, user_id, file_name, key, url, expiration_time)
       IN
       /\ s3' = IF uploaded(outcome) THEN s3 \cup {key} ELSE s3
       /\ files' = IF committed(outcome) THEN files \cup {rec} ELSE files
       /\ tasks' = IF scheduled(outcome)
                   THEN [tasks EXCEPT ![i] = [pc |-> "sleep", key |-> key,
                                              armed_at |-> now + lag,
                                              wake |-> now + lag + DeletionDelay,
                                              attempts |-> 0,
                                              resp |-> "none", db |-> "none",
                                              log |-> "none", told |-> "none"]]
                   ELSE tasks
       /\ msgs' = Append(msgs, [user_id |-> user_id, file_name |-> file_name,
                                outcome |-> outcome,
                                unique_name |->
                                    IF outcome \in {"unsupported", "fetch_failed"}
                                    THEN NoKey ELSE key,
                                reply |-> answer(outcome)])
    /\ now' = now + lag
    /\ shown' = NoListing
    /\ pressed' = 0
    /\ UNCHANGED keyboards
    /\ UNCHANGED <<boots, dueAtStart>>

\* the handler when no measurable time passes inside it
handle_document(user_id, file_name, outcome) ==
    handle_document_slow(user_id, file_name, outcome, 0)

\* ----------------------------------------------------- schedule_deletion
\* `await asyncio.sleep(delay_seconds)` is over; s3.delete_object is issued.
\* mutant: the task does not wait
sleep_over_at_once(i) == TRUE

\* `await asyncio.sleep(delay_seconds)` has returned
sleep_over(i) == now >= tasks[i].wake

schedule_deletion_call(i) ==
    /\ tasks[i].pc = "sleep"
    /\ sleep_over(i)
    /\ tasks' = [tasks EXCEPT ![i].pc = "delete",
                              ![i].attempts = tasks[i].attempts + 1]
    /\ shown' = NoListing
    /\ pressed' = 0
    /\ UNCHANGED keyboards
    /\ UNCHANGED <<now, s3, files, msgs, boots, dueAtStart>>

\* s3.delete_object returns or raises, and the rest of the task runs.
\*   resp = "204"          : HTTPStatusCode 204; the key is gone (or was absent)
\*   resp = "other"        : a response with another status code
\*   resp = "unavailable"  : the call raised, the backend was not reached
\*   resp = "client_error" : the call raised, the backend refused the request
\*   gone                  : whether the backend removed the object
\*   db                    : "ok", or "raise" when the session raised
Responses == {"204", "other", "unavailable", "client_error"}

\* mutant: the row is deleted whatever delete_object answered
deleted_whatever_the_response(resp) == TRUE

\* line 127: the only response after which the row is deleted
deleted_from_storage(resp) == resp = "204"

\* the level of the last line the task logs: info (128, 136), warning (141)
\* or error (143)
log_level(resp, db) ==
    IF resp \in {"unavailable", "client_error"} \/ db = "raise" THEN "error"
    ELSE IF resp = "other" THEN "warning"
    ELSE "info"

\* mutant: a failed deletion is reported to the user
told_when_failed(resp, db) == IF log_level(resp, db) = "info" THEN "none" ELSE "error"

\* what the task sends to a user: nothing, it holds no message to answer
told(resp, db) == "none"

\* mutant: the task sleeps and tries again when the backend was not reached
retry_when_unavailable(resp, db) == IF resp = "unavailable" THEN "sleep" ELSE "done"

\* where the task is after lines 124-143: it has returned, the except branch
\* (142-143) swallows every exception
after_attempt(resp, db) == "done"

schedule_deletion_return(i, resp, gone, db) ==
    /\ tasks[i].pc = "delete"
    /\ resp = "204" => gone
    /\ resp \in {"unavailable", "client_error"} => ~gone
    /\ db = "none" <=> ~deleted_from_storage(resp)
    /\ LET key == tasks[i].key IN
       /\ s3' = IF gone THEN s3 \ {key} ELSE s3
       /\ files' = IF deleted_from_storage(resp) /\ db = "ok"
                   THEN files \ first_by_unique_name(files, key)
                   ELSE files
    /\ tasks' = [tasks EXCEPT ![i].pc = after_attempt(resp, db),
                              ![i].resp = resp, ![i].db = db,
                              ![i].log = log_level(resp, db),
                              ![i].told = told(resp, db)]
    /\ shown' = NoListing
    /\ pressed' = 0
    /\ UNCHANGED keyboards
    /\ UNCHANGED <<now, msgs, boots, dueAtStart>>

\* ---------------------------------------------------------- files_handler
\* the caller says whose press, if any, it is handling
files_handler(user_id) ==
    /\ shown' = [user_id |-> user_id, files |-> files_query(files, user_id)]
    /\ UNCHANGED <<now, s3, files, msgs, tasks, boots, dueAtStart, keyboards>>

\* await callback_query.message.answer("This bot is created by ...")
about_handler ==
    /\ shown' = NoListing
    /\ UNCHANGED <<now, s3, files, msgs, tasks, boots, dueAtStart, keyboards>>

\* json.dumps({"action": ..., "user_id": user_id}) of the two buttons
main_menu_keyboard(user_id) ==
    {[action |-> a, user_id |-> user_id] : a \in {"show_files", "show_about"}}

\* /start: the answer carries a keyboard made for the sender
start_handler(user_id) ==
    /\ keyboards' = keyboards \cup {user_id}
    /\ shown' = NoListing
    /\ pressed' = 0
    /\ UNCHANGED <<now, s3, files, msgs, tasks, boots, dueAtStart>>

\* user_id = data.get("user_id") (line 111)
callback_owner(from_user, data) == data.user_id

\* A user presses a button of a keyboard that was sent: callback_query.data
\* is that button's data, callback_query.from_user is whoever pressed.
callback_handler(from_user, data) ==
    /\ data.user_id \in keyboards
    /\ data \in main_menu_keyboard(data.user_id)
    /\ pressed' = from_user
    /\ \/ data.action = "show_files" /\ files_handler(callback_owner(from_user, data))
       \/ data.action = "show_about" /\ about_handler

\* ------------------------------------------------------------ environment
Tick ==
    /\ now + TickStep <= MaxTime
    /\ now' = now + TickStep
    /\ shown' = NoListing
    /\ pressed' = 0
    /\ UNCHANGED keyboards
    /\ UNCHANGED <<s3, files, msgs, tasks, boots, dueAtStart>>

\* The process dies and main() runs again: the bucket and the table stay,
\* every coroutine and every deletion task is gone.  A delete_object that
\* was in flight may or may not have been applied by the backend.
main(applied) ==
    /\ boots < MaxRestarts
    /\ applied \subseteq {tasks[i].key : i \in {j \in Armed : tasks[j].pc = "delete"}}
    /\ boots' = boots + 1
    /\ dueAtStart' = {r.unique_name : r \in {x \in files : x.expiration_time <= now}}
    /\ s3' = s3 \ applied
    /\ tasks' = [i \in DOMAIN tasks |-> NoTask]
    /\ shown' = NoListing
    /\ pressed' = 0
    /\ UNCHANGED keyboards
    /\ UNCHANGED <<now, files, msgs>>

Next ==
    \/ \E u \in Users, n \in Names \cup {NoName} :
          \E o \in Outcomes : handle_document(u, n, o)
    \/ \E i \in 1..MaxUploads : schedule_deletion_call(i)
    \/ \E i \in 1..MaxUploads :
          \E resp \in Responses, gone \in BOOLEAN,
             db \in {"ok", "raise", "none"} :
              schedule_deletion_return(i, resp, gone, db)
    \/ \E u \in Users : files_handler(u) /\ pressed' = 0
    \/ Tick
    \/ \E applied \in SUBSET s3 : main(applied)

Spec == Init /\ [][Next]_vars

\* The event loop runs every task that is ready, every storage call returns,
\* and time passes.  Nothing obliges a message to arrive, a listing to be
\* asked for or the process to restart.
FairSpec ==
    /\ Spec
    /\ WF_vars(Tick)
    /\ \A i \in 1..MaxUploads : WF_vars(schedule_deletion_call(i))
    /\ \A i \in 1..MaxUploads :
          WF_vars(\E resp \in Responses, gone \in BOOLEAN, db \in {"ok", "raise", "none"} :
                     schedule_deletion_return(i, resp, gone, db))

\* One process run in which the commit of an upload may take time.
NextLag ==
    \/ \E u \in Users, n \in Names \cup {NoName} :
          \E o \in Outcomes, lag \in {0, MaxCommitLag} :
              handle_document_slow(u, n, o, lag)
    \/ \E i \in 1..MaxUploads : schedule_deletion_call(i)
    \/ \E i \in 1..MaxUploads :
          \E resp \in Responses, gone \in BOOLEAN,
             db \in {"ok", "raise", "none"} :
              schedule_deletion_return(i, resp, gone, db)
    \/ Tick
    \/ \E applied \in SUBSET s3 : main(applied)

LagSpec == Init /\ [][NextLag]_vars

\* The program with its /start command and its buttons: a listing is sent
\* only in answer to a press of `Show Files`.
NextCallback ==
    \/ \E u \in Users, n \in Names \cup {NoName} :
          \E o \in Outcomes : handle_document(u, n, o)
    \/ \E i \in 1..MaxUploads : schedule_deletion_call(i)
    \/ \E i \in 1..MaxUploads :
          \E resp \in Responses, gone \in BOOLEAN,
             db \in {"ok", "raise", "none"} :
              schedule_deletion_return(i, resp, gone, db)
    \/ \E u \in Users : start_handler(u)
    \/ \E p \in Users, u \in Users :
          \E d \in main_menu_keyboard(u) : callback_handler(p, d)
    \/ Tick
    \/ \E applied \in SUBSET s3 : main(applied)

CallbackSpec == Init /\ [][NextCallback]_vars

\* ======================================================================
\* Properties
\* ======================================================================
Keys == {unique_name_of(uuid4(i), n) : i \in 1..MaxUploads, n \in Names}
RowsOf(k) == {r \in files : r.unique_name = k}
Listed(user_id) ==
    LET l == files_query(files, user_id)
    IN  {l[j].unique_name : j \in 1..Len(l)}
\* the users whose message created the row
CreatedBy(r) ==
    {msgs[i].user_id : i \in {j \in DOMAIN msgs : /\ msgs[j].outcome = "ok"
                                                   /\ msgs[j].unique_name = r.unique_name}}
Finished(i) == tasks[i].pc = "done"

\* C1: every row that is in the table, already expired, when the process
\* starts is eventually deleted by the restarted process, blob and row.
C1_NoDeletionLostAcrossRestart ==
    \A k \in Keys : (k \in dueAtStart) ~> (k \notin RecordKeys /\ k \notin s3)

\* C2: in every reachable state every key in the bucket has a row in the
\* table.
C2_RecordsCoverBlobs == s3 \subseteq RecordKeys

\* C3: for every key, at most one deletion task has its delete_object call
\* for that key in progress.
C3_OneDeleteInProgressPerKey ==
    \A k \in Keys :
        Cardinality({i \in Armed : tasks[i].key = k /\ tasks[i].pc = "delete"}) <= 1

C3_Witness ==
    \E i, j \in Armed : /\ i # j
                        /\ tasks[i].pc = "delete"
                        /\ tasks[j].pc = "delete"

C5_RetriedAfterUnavailable ==
    \A i \in Armed :
        (Finished(i) /\ tasks[i].resp = "unavailable") => tasks[i].attempts >= 3

\* C6: a handle_document step whose fetch or upload failed answers with the
\* error, adds no row to the table and creates no deletion task.
C6_FailedPutLeavesNoTrace ==
    [][(/\ Len(msgs') = Len(msgs) + 1
        /\ msgs'[Len(msgs')].outcome \in {"fetch_failed", "put_failed"})
       => /\ files' = files
          /\ tasks' = tasks
          /\ msgs'[Len(msgs')].reply = "error"
          /\ msgs'[Len(msgs')].unique_name \notin RecordKeys']_vars

C6_Witness ==
    /\ files # {}
    /\ Armed # {}
    /\ \E i \in DOMAIN msgs : msgs[i].outcome = "put_failed" /\ msgs[i].reply = "error"
    /\ \E i \in DOMAIN msgs : i > 1 /\ msgs[i].outcome \in {"put_failed", "fetch_failed"}

\* C7: the listing for owner A holds no row created by a message of another
\* user B, in the table as it is and in every listing sent.
C7_OwnershipIsolation ==
    /\ \A A \in Users : \A r \in files :
          r.unique_name \in Listed(A) => CreatedBy(r) \subseteq {A}
    /\ \A j \in 1..Len(shown.files) :
          /\ CreatedBy(shown.files[j]) \subseteq {shown.user_id}
          /\ shown.files[j].user_id = shown.user_id

C7_Witness ==
    /\ shown.user_id \in Users
    /\ Len(shown.files) > 0
    /\ \E r \in files : r.user_id # shown.user_id

\* C8: every delete_object outcome other than a transient backend failure
\* ends with the row removed (unless the session raised).
C8_NonTransientOutcomeIsSuccess ==
    \A i \in Armed :
        (Finished(i) /\ tasks[i].resp # "unavailable" /\ tasks[i].db # "raise")
            => tasks[i].key \notin RecordKeys

\* C9: two uploads, in particular by distinct owners with the same display
\* name, get distinct keys and distinct rows, and the end of a deletion
\* sequence for one key changes no other key's blob or row.
C9_IndependentRecords ==
    [][/\ \A i, j \in DOMAIN msgs' :
             (i # j /\ msgs'[i].unique_name # NoKey) =>
                 msgs'[i].unique_name # msgs'[j].unique_name
       /\ \A k \in Keys : Cardinality({r \in files' : r.unique_name = k}) <= 1
       /\ \A i \in Armed :
             (tasks[i].pc = "delete" /\ tasks'[i].pc = "done") =>
                 /\ s3' \ {tasks[i].key} = s3 \ {tasks[i].key}
                 /\ {r \in files' : r.unique_name # tasks[i].key}
                        = {r \in files : r.unique_name # tasks[i].key}]_vars

C9_Witness ==
    \E i, j \in Armed :
        /\ msgs[i].user_id # msgs[j].user_id
        /\ msgs[i].file_name = msgs[j].file_name
        /\ Finished(i) /\ tasks[i].resp = "204" /\ tasks[i].db = "ok"
        /\ tasks[j].pc = "sleep"
        /\ tasks[j].key \in s3
        /\ RowsOf(tasks[j].key) # {}

\* C10: in every reachable state the table holds exactly one row for each
\* key in the bucket.
C10_ExactlyOneRecordPerLiveKey ==
    \A k \in s3 : Cardinality(RowsOf(k)) = 1

\* when the row was created, and by which message
CreatedAt(r) == r.expiration_time - ExpirationHours * SecondsPerHour
MsgIndex(r) == CHOOSE i \in DOMAIN msgs : msgs[i].unique_name = r.unique_name
InCreationOrder(l) ==
    \A j, k \in 1..Len(l) :
        j < k => /\ CreatedAt(l[j]) <= CreatedAt(l[k])
                 /\ MsgIndex(l[j]) < MsgIndex(l[k])

C12_DeleteBlobThenRecord ==
    [][\A k \in Keys :
          (RowsOf(k) # {} /\ {r \in files' : r.unique_name = k} = {}) =>
              \E i \in Armed :
                  /\ tasks[i].key = k
                  /\ tasks[i].pc = "delete"
                  /\ tasks[i].attempts >= 1
                  /\ tasks'[i].pc = "done"
                  /\ tasks'[i].resp = "204"
                  /\ k \notin s3']_vars

C12_Witness ==
    \E i, j \in Armed :
        /\ Finished(i) /\ tasks[i].resp = "204" /\ tasks[i].db = "ok"
        /\ RowsOf(tasks[i].key) = {}
        /\ Finished(j) /\ tasks[j].resp # "204"
        /\ RowsOf(tasks[j].key) # {}

\* C13: a handle_document step that answers with the link has put the blob,
\* committed the row with its expiry and created the deletion task for that
\* key; a row is committed only with its blob put, and a task created only
\* with its row committed.
C13_IngestOrder ==
    [][Len(msgs') = Len(msgs) + 1 =>
          LET i == Len(msgs')
              m == msgs'[i]
              added == files' \ files
          IN  /\ m.reply = "link" =>
                    /\ m.unique_name \in s3'
                    /\ \E r \in added :
                          /\ r.unique_name = m.unique_name
                          /\ r.user_id = m.user_id
                          /\ r.expiration_time = now + ExpirationHours * SecondsPerHour
                    /\ tasks'[i].pc = "sleep"
                    /\ tasks'[i].key = m.unique_name
              /\ added # {} => \A r \in added : r.unique_name \in s3'
              /\ tasks'[i] # tasks[i] =>
                    \E r \in added : r.unique_name = tasks'[i].key]_vars

C13_Witness ==
    \E i, j \in DOMAIN msgs :
        /\ msgs[i].reply = "link"
        /\ tasks[i].pc = "sleep"
        /\ msgs[i].unique_name \in s3 \cap RecordKeys
        /\ msgs[j].outcome = "commit_failed"
        /\ msgs[j].reply = "error"

\* C15: the step that ends a deletion task sends nothing to any user,
\* whatever the outcome: the task returns, it does not raise, and a failure
\* is only logged, as a warning or an error.
C15_DeletionFailuresOnlyLogged ==
    [][\A i \in Armed :
          (tasks[i].pc = "delete" /\ tasks'[i] # tasks[i] /\ tasks'[i] # NoTask) =>
              /\ tasks'[i].pc = "done"
              /\ tasks'[i].told = "none"
              /\ msgs' = msgs
              /\ shown' = NoListing
    /\ pressed' = 0
    /\ UNCHANGED keyboards
              /\ (tasks'[i].resp # "204" \/ tasks'[i].db = "raise")
                    <=> tasks'[i].log \in {"warning", "error"}]_vars

C15_Witness ==
    /\ \E i \in Armed : Finished(i) /\ tasks[i].resp = "client_error" /\ tasks[i].log = "error"
    /\ \E i \in Armed : Finished(i) /\ tasks[i].db = "raise" /\ tasks[i].log = "error"

\* C16: a deletion task makes one delete_object attempt; when the attempt
\* raised or answered another status than 204, the task stays ended for the
\* rest of the process run and the row stays as it was, expired and in its
\* owner's listing.
FailedDeletionKeepsRow ==
    \A i \in Armed :
        /\ tasks[i].attempts <= 1
        /\ (Finished(i) /\ tasks[i].resp # "204") =>
              /\ \E r \in RowsOf(tasks[i].key) :
                    /\ r.user_id = msgs[i].user_id
                    /\ r.expiration_time <= now
              /\ \A j \in Armed : j # i => tasks[j].key # tasks[i].key

C16_FailedDeletionIsFinal ==
    [][/\ FailedDeletionKeepsRow'
       /\ \A i \in Armed :
             (Finished(i) /\ tasks[i].resp # "204") =>
                /\ {r \in files' : r.unique_name = tasks[i].key} = RowsOf(tasks[i].key)
                /\ tasks'[i] \in {tasks[i], NoTask}
                /\ shown'.user_id = msgs[i].user_id =>
                      \E j \in 1..Len(shown'.files) :
                          /\ shown'.files[j].unique_name = tasks[i].key
                          /\ shown'.files[j].expiration_time <= now']_vars

C16_Witness ==
    \E i \in Armed :
        /\ Finished(i)
        /\ tasks[i].resp \in {"unavailable", "other"}
        /\ shown.user_id = msgs[i].user_id
        /\ \E j \in 1..Len(shown.files) :
              /\ shown.files[j].unique_name = tasks[i].key
              /\ shown.files[j].expiration_time <= now

\* C19: a handle_document step for a message with no supported attachment
\* answers once, with the request for a supported file type, and leaves the
\* bucket, the table and the deletion tasks as they were.
C19_UnsupportedMessageChangesNothing ==
    [][(/\ Len(msgs') > Len(msgs)
        /\ msgs'[Len(msgs')].file_name = NoName)
       => /\ Len(msgs') = Len(msgs) + 1
          /\ msgs'[Len(msgs')].reply = "unsupported"
          /\ s3' = s3
          /\ files' = files
          /\ tasks' = tasks]_vars

C19_Witness ==
    /\ s3 # {}
    /\ files # {}
    /\ \E i \in Armed : tasks[i].pc = "sleep"
    /\ msgs[Len(msgs)].reply = "unsupported"
    /\ msgs[Len(msgs)].file_name = NoName

Max0(x) == IF x > 0 THEN x ELSE 0

\* C14 (as claimed): the delay a deletion task waits is
\* max(0, expires_at - now) measured when the task is created, so that the
\* task wakes at its row's expires_at.
C14_DelayIsTimeToExpiry ==
    \A i \in Armed : \A r \in RowsOf(tasks[i].key) :
        /\ tasks[i].wake - tasks[i].armed_at = Max0(r.expiration_time - tasks[i].armed_at)
        /\ tasks[i].wake = r.expiration_time

\* C14 (amended): the delay is the fixed 3600 s counted from the creation of
\* the task; the task wakes no earlier than its row's expires_at and later
\* than it by exactly the time that passed between computing expires_at and
\* creating the task, and delete_object is never issued before expires_at.
WakesAfterExpiry ==
    \A i \in Armed : \A r \in RowsOf(tasks[i].key) :
        /\ tasks[i].wake - tasks[i].armed_at = DeletionDelay
        /\ tasks[i].wake >= r.expiration_time
        /\ tasks[i].wake - r.expiration_time = tasks[i].armed_at - CreatedAt(r)

C14_FixedDelayFromArming ==
    [][/\ WakesAfterExpiry
       /\ WakesAfterExpiry'
       /\ \A i \in Armed : \A r \in RowsOf(tasks[i].key) :
             (tasks[i].pc = "sleep" /\ tasks'[i].pc = "delete") =>
                 now >= r.expiration_time]_vars

C14_Witness ==
    \E i \in Armed : \E r \in RowsOf(tasks[i].key) :
        /\ tasks[i].pc = "delete"
        /\ tasks[i].armed_at > CreatedAt(r)
        /\ now >= tasks[i].wake

\* C17: the blob of a row leaves the bucket, and the delete_object call for
\* it is issued, only when the validity of the link stored in the row
\* (3600 s from its issuance) is over; the task wakes no earlier than that.
WakesAfterLinkExpiry ==
    \A i \in Armed : \A r \in RowsOf(tasks[i].key) :
        /\ r.download_link.key = tasks[i].key
        /\ r.download_link.valid_until <= tasks[i].wake

C17_LinkExpiresBeforeDeletion ==
    [][/\ WakesAfterLinkExpiry
       /\ WakesAfterLinkExpiry'
       /\ \A r \in files :
             (r.unique_name \in s3 /\ r.unique_name \notin s3') =>
                 r.download_link.valid_until <= now
       /\ \A i \in Armed : \A r \in RowsOf(tasks[i].key) :
             (tasks[i].pc = "sleep" /\ tasks'[i].pc = "delete") =>
                 r.download_link.valid_until <= now]_vars

C17_Witness ==
    \E i \in Armed : \E r \in RowsOf(tasks[i].key) :
        /\ Finished(i)
        /\ tasks[i].key \notin s3
        /\ r.download_link.valid_until < tasks[i].wake

\* C18: the listing sent in answer to a press of `Show Files` is made for
\* the user who pressed the button and holds only rows of that user.
C18_ListingIsForPresser ==
    pressed # 0 =>
        /\ shown.user_id \in {0, pressed}
        /\ \A j \in 1..Len(shown.files) : shown.files[j].user_id = pressed

====
